---------------------------- MODULE Spec2Model ----------------------------
(***************************************************************************)
(* A model of wpparser (src/wpparser/parser.py): the WXR export parser.    *)
(*                                                                         *)
(* The XML tree is modelled as ElementTree presents it: an element is a    *)
(* record [tag, attrib, text, children]; a tag "{ns}local" is the pair     *)
(* <<ns, local>>.  A Python value that may be None (the text of an         *)
(* element, the result of find) is None == <<>> or Some(v) == <<v>>, so    *)
(* None never coincides with a text.  A call either returns, Ok(v), or     *)
(* raises, Raise(type, where).  The functions of parser.py are the         *)
(* actions below, one per statement group, linked by the program counter   *)
(* pc; a loop is one action per iteration.                                 *)
(***************************************************************************)
EXTENDS Integers, Sequences, FiniteSets, TLC

VARIABLES
    pc,         \* the position in the code
    top,        \* the function the run entered: a return from it ends the run
    doc,        \* parse: the root element ET.parse(path).getroot() gave
    channel,    \* parse: doc.find("./channel"), None or Some(element)
    blog,       \* parse: None until _parse_blog returned, then Some(dict)
    authors,    \* parse: None until _parse_authors returned
    categories, \* parse: None until _parse_categories returned
    tags,       \* parse: None until _parse_tags returned
    posts,      \* _parse_posts: the list posts
    result,     \* parse: None until parse returned, then Some(dict)
    exc,        \* None, or Some(the exception that left the entered function)
    log,        \* the warnings logging.warning received, in order
    catItems,   \* _parse_categories: element.findall(category)
    catIdx,     \* _parse_categories: the next element of the for loop
    reference,  \* _parse_categories: the dict reference, in insertion order
    stack,      \* _build_category_tree: the active calls, innermost last
    ret,        \* _build_category_tree: None, or Some(the call that returned last)
    items,      \* _parse_posts: element.findall("item")
    itemIdx,    \* _parse_posts: the next item of the for loop
    post,       \* _parse_posts: the dict post of the current item
    fields,     \* _parse_postmeta: element.findall(postmeta)
    fieldIdx,   \* _parse_postmeta: the next field of the for loop
    metadata    \* _parse_postmeta: the dict metadata

vars == <<pc, top, doc, channel, blog, authors, categories, tags, posts,
          result, exc, log, catItems, catIdx, reference, stack, ret, items,
          itemIdx, post, fields, fieldIdx, metadata>>

parseVars == <<doc, channel, blog, authors, categories, tags, result>>
catVars == <<catItems, catIdx, reference, stack, ret>>
postVars == <<posts, items, itemIdx, post>>
metaVars == <<fields, fieldIdx, metadata, log>>

(***************************************************************************)
(* Bounds of the model.                                                    *)
(***************************************************************************)
MaxCats == 3
MaxMeta == 3
MaxItemCats == 3
MaxItems == 2

(***************************************************************************)
(* Python values.                                                          *)
(***************************************************************************)
None == <<>>
Some(v) == <<v>>
Ok(v) == [ok |-> TRUE, val |-> v]
Raise(type, where) == [ok |-> FALSE, exc |-> type, at |-> where]

\* The keys of the dict post are texts spelled out in characters, for the
\* key f'category_{k}' is put together from two texts.
KeyTitle == <<"t", "i", "t", "l", "e">>
KeyLink == <<"l", "i", "n", "k">>
KeyPubDate == <<"p", "u", "b", "_", "d", "a", "t", "e">>
KeyCreator == <<"c", "r", "e", "a", "t", "o", "r">>
KeyGuid == <<"g", "u", "i", "d">>
KeyDescription == <<"d", "e", "s", "c", "r", "i", "p", "t", "i", "o", "n">>
KeyContent == <<"c", "o", "n", "t", "e", "n", "t">>
KeyExcerpt == <<"e", "x", "c", "e", "r", "p", "t">>
KeyPostId == <<"p", "o", "s", "t", "_", "i", "d">>
KeyPostDate == <<"p", "o", "s", "t", "_", "d", "a", "t", "e">>
KeyPostDateGmt == <<"p", "o", "s", "t", "_", "d", "a", "t", "e", "_", "g", "m", "t">>
KeyStatus == <<"s", "t", "a", "t", "u", "s">>
KeyPostParent == <<"p", "o", "s", "t", "_", "p", "a", "r", "e", "n", "t">>
KeyMenuOrder == <<"m", "e", "n", "u", "_", "o", "r", "d", "e", "r">>
KeyPostType == <<"p", "o", "s", "t", "_", "t", "y", "p", "e">>
KeyPostName == <<"p", "o", "s", "t", "_", "n", "a", "m", "e">>
KeyIsSticky == <<"i", "s", "_", "s", "t", "i", "c", "k", "y">>
KeyPingStatus == <<"p", "i", "n", "g", "_", "s", "t", "a", "t", "u", "s">>
KeyPostPassword == <<"p", "o", "s", "t", "_", "p", "a", "s", "s", "w", "o", "r", "d">>
KeyPostmeta == <<"p", "o", "s", "t", "m", "e", "t", "a">>
KeyComments == <<"c", "o", "m", "m", "e", "n", "t", "s">>

EXCERPT_NAMESPACE == "http://wordpress.org/export/1.2/excerpt/"
CONTENT_NAMESPACE == "http://purl.org/rss/1.0/modules/content/"
DC_NAMESPACE == "http://purl.org/dc/elements/1.1/"
WP_NAMESPACE == "http://wordpress.org/export/1.2/"

(***************************************************************************)
(* xml.etree.ElementTree, as parser.py uses it.                            *)
(***************************************************************************)
Element(ns, name, attrib, text, children) ==
    [tag |-> <<ns, name>>, attrib |-> attrib, text |-> text,
     children |-> children]
Leaf(ns, name, text) == Element(ns, name, <<>>, text, <<>>)

\* element.findall(tag): the children with that tag, in document order.
FindAll(element, ns, name) ==
    SelectSeq(element.children, LAMBDA c : c.tag = <<ns, name>>)

\* element.find(tag): the first child with that tag, or None.
Find(element, ns, name) ==
    LET found == FindAll(element, ns, name)
    IN IF found = <<>> THEN None ELSE Some(found[1])

\* element.find(tag).text: an attribute of None raises AttributeError.
FindText(element, ns, name, where) ==
    LET found == Find(element, ns, name)
    IN IF found = None THEN Raise("AttributeError", where)
       ELSE Ok(found[1].text)

\* _get_wp_element(element, name)
GetWpElement(element, name) ==
    FindText(element, WP_NAMESPACE, name, "_get_wp_element")

\* The first call of a sequence of calls that raised, or None.
FirstRaise(calls) ==
    LET bad == {i \in 1..Len(calls) : ~calls[i].ok}
    IN IF bad = {} THEN None
       ELSE Some(calls[CHOOSE i \in bad : \A j \in bad : i <= j])

\* An exception leaves the entered function: nothing in parser.py but the
\* ValueError handler of _parse_postmeta catches one.
Propagate(r) ==
    /\ pc' = "raised"
    /\ exc' = Some([type |-> r.exc, at |-> r.at])

\* The entered function returned, or its caller goes on at `next`.
ReturnTo(fn, next) == pc' = IF top = fn THEN "done" ELSE next

\* A lookup that falls back on the root when it has no channel.
ChannelOrRoot(where) ==
    IF channel = None THEN Ok(doc[1]) ELSE Ok(channel[1])

\* The element a stage works on: channel.find and channel.findall of a
\* channel that is None raise AttributeError.
ChannelElement(where) ==
    IF channel = None
    THEN Raise("AttributeError", where)
    ELSE Ok(channel[1])

(***************************************************************************)
(* _parse_categories and _build_category_tree.                             *)
(***************************************************************************)
\* reference[key] = value on a dict kept in insertion order: a key that is
\* there keeps its place and takes the new value.
DictSet(d, key, value) ==
    IF \E i \in 1..Len(d) : d[i].key = key
    THEN [i \in 1..Len(d) |->
             IF d[i].key = key THEN [key |-> key, val |-> value] ELSE d[i]]
    ELSE Append(d, [key |-> key, val |-> value])

\* A category that loses the children it was given.
WithChildrenDropped(category, children) ==
    [term_id |-> category.term_id, nicename |-> category.nicename,
     name |-> category.name, parent |-> category.parent,
     children |-> <<>>]

\* category["children"] = children
WithChildren(category, children) ==
    [term_id |-> category.term_id, nicename |-> category.nicename,
     name |-> category.name, parent |-> category.parent,
     children |-> children]

\* A comparison that never takes a category for its own child.
IsChildOfOther(category, slug) ==
    category.parent = slug /\ category.nicename # slug

\* if category["parent"] == slug
IsChildOf(category, slug) == category.parent = slug

\* An insert at the front instead of the end.
ListPrepend(list, value) == <<value>> \o list

\* items.append(category)
ListAppend(list, value) == Append(list, value)

\* CPython ends a recursion deeper than its limit (1000 by default) with
\* RecursionError.  A chain of distinct nicenames is at most Len(reference)
\* calls below the root call, so only a call that repeats a slug can go
\* deeper than that: the model's limit is the least depth with that property.
RecursionLimit == MaxCats + 1

\* _parse_categories: reference = {} and the for loop's sequence.
CategoriesEnter ==
    /\ pc = "categories"
    /\ IF ~ChannelElement("_parse_categories").ok
       THEN /\ Propagate(ChannelElement("_parse_categories"))
            /\ UNCHANGED <<catItems, catIdx, reference>>
       ELSE /\ catItems' = FindAll(ChannelElement("_parse_categories").val,
                                   WP_NAMESPACE, "category")
            /\ catIdx' = 1
            /\ reference' = <<>>
            /\ pc' = "category_item"
            /\ UNCHANGED exc
    /\ UNCHANGED <<top, parseVars, postVars, metaVars, stack, ret>>

\* One iteration of the for loop of _parse_categories.
CategoryItem ==
    /\ pc = "category_item"
    /\ catIdx <= Len(catItems)
    /\ LET item == catItems[catIdx]
           term_id == GetWpElement(item, "term_id")
           nicename == GetWpElement(item, "category_nicename")
           name == GetWpElement(item, "cat_name")
           parent == GetWpElement(item, "category_parent")
           raised == FirstRaise(<<term_id, nicename, name, parent>>)
       IN IF raised # None
          THEN /\ Propagate(raised[1])
               /\ UNCHANGED <<catIdx, reference>>
          ELSE /\ reference' = DictSet(reference, nicename.val,
                      [term_id |-> term_id.val, nicename |-> nicename.val,
                       name |-> name.val, parent |-> parent.val])
               /\ catIdx' = catIdx + 1
               /\ UNCHANGED <<pc, exc>>
    /\ UNCHANGED <<top, parseVars, postVars, metaVars, catItems, stack, ret>>

\* return _build_category_tree(None, reference=reference): the root call.
BuildRoot ==
    /\ pc = "category_item"
    /\ catIdx > Len(catItems)
    /\ stack' = <<[slug |-> None, idx |-> 1, items |-> <<>>]>>
    /\ pc' = "build"
    /\ UNCHANGED <<top, exc, parseVars, postVars, metaVars, catItems, catIdx,
                   reference, ret>>

\* One iteration of the for loop of the innermost _build_category_tree: a
\* category whose parent is the slug starts the recursive call.
BuildStep ==
    /\ pc = "build"
    /\ LET frame == stack[Len(stack)]
       IN /\ frame.idx <= Len(reference)
          /\ LET category == reference[frame.idx].val
             IN IF IsChildOf(category, frame.slug)
                THEN IF Len(stack) >= RecursionLimit
                     THEN /\ Propagate(Raise("RecursionError",
                                             "_build_category_tree"))
                          /\ UNCHANGED stack
                     ELSE /\ stack' = Append(stack,
                                 [slug |-> category.nicename, idx |-> 1,
                                  items |-> <<>>])
                          /\ UNCHANGED <<pc, exc>>
                ELSE /\ stack' = [stack EXCEPT ![Len(stack)].idx = @ + 1]
                     /\ UNCHANGED <<pc, exc>>
    /\ UNCHANGED <<top, parseVars, postVars, metaVars, catItems, catIdx,
                   reference, ret>>

\* return items of the innermost _build_category_tree.  The caller stores
\* the list in its category, appends the category and goes on; the root
\* call's list is what _parse_categories returns.
BuildReturn ==
    /\ pc = "build"
    /\ LET depth == Len(stack)
           frame == stack[depth]
       IN /\ frame.idx > Len(reference)
          /\ ret' = Some([slug |-> frame.slug, items |-> frame.items])
          /\ IF depth = 1
             THEN /\ stack' = <<>>
                  /\ categories' = Some(frame.items)
                  /\ ReturnTo("_parse_categories", "tags")
                  /\ UNCHANGED reference
             ELSE LET caller == stack[depth - 1]
                      category == WithChildren(reference[caller.idx].val,
                                               frame.items)
                  IN /\ reference' = [reference EXCEPT
                                          ![caller.idx].val = category]
                     /\ stack' = [SubSeq(stack, 1, depth - 1) EXCEPT
                            ![depth - 1] =
                                [slug |-> caller.slug,
                                 idx |-> caller.idx + 1,
                                 items |-> ListAppend(caller.items, category)]]
                     /\ UNCHANGED <<pc, categories>>
    /\ UNCHANGED <<top, exc, doc, channel, blog, authors, tags, result,
                   postVars, metaVars, catItems, catIdx>>

(***************************************************************************)
(* _parse_postmeta.                                                        *)
(***************************************************************************)
\* phpserialize.load on the bytes of a text.  The library is not part of
\* the repository: the model gives its outcome on the texts the inputs use.
\* An integer and an array decode; a text that breaks off, or starts with no
\* opcode, is a ValueError; an array used as an array key is a TypeError
\* (dict() cannot hash it).
PhpInt(n) == <<"int", <<n>>>>
PhpArray(pairs) == <<"array", pairs>>
PhpLoad(text) ==
    CASE text = "i:7;" -> Ok(PhpInt(7))
      [] text = "a:0:{}" -> Ok(PhpArray(<<>>))
      [] text = "a:1:{i:0;" -> Raise("ValueError", "phpserialize.load")
      [] text = "logo-promo.png" -> Raise("ValueError", "phpserialize.load")
      [] text = "a:1:{a:0:{}i:1;}" -> Raise("TypeError", "phpserialize.load")

\* StringIO(value.encode()) and phpserialize.load(stream): None has no
\* encode.
DecodeValue(value) ==
    IF value = None THEN Raise("AttributeError", "_parse_postmeta")
    ELSE PhpLoad(value[1])

\* A store that keeps the value a key already has.
DictPutIfAbsent(d, key, value) ==
    [k \in DOMAIN d \cup {key} |-> IF k \in DOMAIN d THEN d[k] ELSE value]

\* metadata[key] = value
DictPut(d, key, value) ==
    [k \in DOMAIN d \cup {key} |-> IF k = key THEN value ELSE d[k]]

\* A rename that keeps the key of the export.
AttachedFileKeyRaw == Some("_wp_attached_file")

\* metadata["attached_file"] = value
AttachedFileKey == Some("attached_file")

\* metadata = {} and the for loop's sequence.
PostmetaEnter ==
    /\ pc = "postmeta"
    /\ metadata' = <<>>
    /\ fields' = FindAll(items[itemIdx], WP_NAMESPACE, "postmeta")
    /\ fieldIdx' = 1
    /\ pc' = "postmeta_field"
    /\ UNCHANGED <<top, exc, log, parseVars, catVars, postVars>>

\* One iteration of the for loop of _parse_postmeta.
PostmetaField ==
    /\ pc = "postmeta_field"
    /\ fieldIdx <= Len(fields)
    /\ LET field == fields[fieldIdx]
           key == GetWpElement(field, "meta_key")
           value == GetWpElement(field, "meta_value")
           raised == FirstRaise(<<key, value>>)
       IN IF raised # None
          THEN /\ Propagate(raised[1])
               /\ UNCHANGED <<metadata, log, fieldIdx>>
          ELSE IF key.val = Some("_wp_attachment_metadata")
          THEN LET data == DecodeValue(value.val)
               IN IF data.ok
                  THEN /\ metadata' = DictPut(metadata,
                              Some("attachment_metadata"), data.val)
                       /\ fieldIdx' = fieldIdx + 1
                       /\ UNCHANGED <<pc, exc, log>>
                  ELSE IF data.exc = "ValueError"
                       /\ data.at = "phpserialize.load"
                  THEN /\ log' = Append(log, [level |-> "warning",
                                              field |-> fieldIdx])
                       /\ fieldIdx' = fieldIdx + 1
                       /\ UNCHANGED <<pc, exc, metadata>>
                  ELSE /\ Propagate(data)
                       /\ UNCHANGED <<metadata, log, fieldIdx>>
          ELSE IF key.val = Some("_wp_attached_file")
          THEN /\ metadata' = DictPut(metadata, AttachedFileKey, value.val)
               /\ fieldIdx' = fieldIdx + 1
               /\ UNCHANGED <<pc, exc, log>>
          ELSE /\ metadata' = DictPut(metadata, key.val, value.val)
               /\ fieldIdx' = fieldIdx + 1
               /\ UNCHANGED <<pc, exc, log>>
    /\ UNCHANGED <<top, fields, parseVars, catVars, postVars>>

\* return metadata; in _parse_posts the caller stores it:
\* post["postmeta"] = _parse_postmeta(item).
PostmetaReturn ==
    /\ pc = "postmeta_field"
    /\ fieldIdx > Len(fields)
    /\ ReturnTo("_parse_postmeta", "comments")
    /\ post' = IF top = "_parse_postmeta" THEN post
               ELSE Some(DictPut(post[1], KeyPostmeta, metadata))
    /\ UNCHANGED <<top, exc, parseVars, catVars, metaVars, posts, items,
                   itemIdx>>

(***************************************************************************)
(* _parse_blog, _parse_authors, _parse_tags and _parse_comments: each       *)
(* reads its fields in the order of the code and returns a dict, or raises  *)
(* with the first field that is missing.                                    *)
(***************************************************************************)
\* f(x) for every x of a list, as a list of calls: Ok of the list of values
\* when every call returned, the first Raise otherwise.
AllOk(calls) ==
    LET raised == FirstRaise(calls)
    IN IF raised # None THEN raised[1]
       ELSE Ok([i \in 1..Len(calls) |-> calls[i].val])

ParseBlog(element) ==
    LET title == FindText(element, "", "title", "_parse_blog")
        tagline == FindText(element, "", "description", "_parse_blog")
        language == FindText(element, "", "language", "_parse_blog")
        site_url == GetWpElement(element, "base_site_url")
        blog_url == GetWpElement(element, "base_blog_url")
        raised == FirstRaise(<<title, tagline, language, site_url,
                               blog_url>>)
    IN IF raised # None THEN raised[1]
       ELSE Ok([title |-> title.val, tagline |-> tagline.val,
                language |-> language.val, site_url |-> site_url.val,
                blog_url |-> blog_url.val])

ParseAuthor(item) ==
    LET login == GetWpElement(item, "author_login")
        email == GetWpElement(item, "author_email")
        first_name == GetWpElement(item, "author_first_name")
        last_name == GetWpElement(item, "author_last_name")
        display_name == GetWpElement(item, "author_display_name")
        raised == FirstRaise(<<login, email, first_name, last_name,
                               display_name>>)
    IN IF raised # None THEN raised[1]
       ELSE Ok([login |-> login.val, email |-> email.val,
                display_name |-> display_name.val,
                first_name |-> first_name.val,
                last_name |-> last_name.val])

ParseAuthors(element) ==
    LET found == FindAll(element, WP_NAMESPACE, "author")
    IN AllOk([i \in 1..Len(found) |-> ParseAuthor(found[i])])

ParseTag(item) ==
    LET term_id == GetWpElement(item, "term_id")
        slug == GetWpElement(item, "tag_slug")
        name == GetWpElement(item, "tag_name")
        raised == FirstRaise(<<term_id, slug, name>>)
    IN IF raised # None THEN raised[1]
       ELSE Ok([term_id |-> term_id.val, slug |-> slug.val,
                name |-> name.val])

ParseTags(element) ==
    LET found == FindAll(element, WP_NAMESPACE, "tag")
    IN AllOk([i \in 1..Len(found) |-> ParseTag(found[i])])

ParseComment(item) ==
    LET comment_id == GetWpElement(item, "comment_id")
        author == GetWpElement(item, "comment_author")
        email == GetWpElement(item, "comment_author_email")
        author_url == GetWpElement(item, "comment_author_url")
        author_ip == GetWpElement(item, "comment_author_IP")
        date == GetWpElement(item, "comment_date")
        date_gmt == GetWpElement(item, "comment_date_gmt")
        content == GetWpElement(item, "comment_content")
        approved == GetWpElement(item, "comment_approved")
        comment_type == GetWpElement(item, "comment_type")
        parent == GetWpElement(item, "comment_parent")
        user_id == GetWpElement(item, "comment_user_id")
        raised == FirstRaise(<<comment_id, author, email, author_url,
                               author_ip, date, date_gmt, content, approved,
                               comment_type, parent, user_id>>)
    IN IF raised # None THEN raised[1]
       ELSE Ok([id |-> comment_id.val, author |-> author.val,
                author_email |-> email.val, author_url |-> author_url.val,
                author_ip |-> author_ip.val, date |-> date.val,
                date_gmt |-> date_gmt.val, content |-> content.val,
                approved |-> approved.val, type |-> comment_type.val,
                parent |-> parent.val, user_id |-> user_id.val])

ParseComments(element) ==
    LET found == FindAll(element, WP_NAMESPACE, "comment")
    IN AllOk([i \in 1..Len(found) |-> ParseComment(found[i])])

(***************************************************************************)
(* _parse_posts.                                                           *)
(***************************************************************************)
\* The nineteen scalar keys of the dict post, in the order of the literal,
\* and where each value is read.
ScalarFields ==
    <<[key |-> KeyTitle, ns |-> "", name |-> "title"],
      [key |-> KeyLink, ns |-> "", name |-> "link"],
      [key |-> KeyPubDate, ns |-> "", name |-> "pubDate"],
      [key |-> KeyCreator, ns |-> DC_NAMESPACE, name |-> "creator"],
      [key |-> KeyGuid, ns |-> "", name |-> "guid"],
      [key |-> KeyDescription, ns |-> "", name |-> "description"],
      [key |-> KeyContent, ns |-> CONTENT_NAMESPACE, name |-> "encoded"],
      [key |-> KeyExcerpt, ns |-> EXCERPT_NAMESPACE, name |-> "encoded"],
      [key |-> KeyPostId, ns |-> WP_NAMESPACE, name |-> "post_id"],
      [key |-> KeyPostDate, ns |-> WP_NAMESPACE, name |-> "post_date"],
      [key |-> KeyPostDateGmt, ns |-> WP_NAMESPACE,
       name |-> "post_date_gmt"],
      [key |-> KeyStatus, ns |-> WP_NAMESPACE, name |-> "status"],
      [key |-> KeyPostParent, ns |-> WP_NAMESPACE, name |-> "post_parent"],
      [key |-> KeyMenuOrder, ns |-> WP_NAMESPACE, name |-> "menu_order"],
      [key |-> KeyPostType, ns |-> WP_NAMESPACE, name |-> "post_type"],
      [key |-> KeyPostName, ns |-> WP_NAMESPACE, name |-> "post_name"],
      [key |-> KeyIsSticky, ns |-> WP_NAMESPACE, name |-> "is_sticky"],
      [key |-> KeyPingStatus, ns |-> WP_NAMESPACE, name |-> "ping_status"],
      [key |-> KeyPostPassword, ns |-> WP_NAMESPACE,
       name |-> "post_password"]>>

\* The reads of lines 252-270, in order.
ReadScalars(item) ==
    [i \in 1..Len(ScalarFields) |->
        FindText(item, ScalarFields[i].ns, ScalarFields[i].name,
                 IF ScalarFields[i].ns = WP_NAMESPACE
                 THEN "_get_wp_element" ELSE "_parse_posts")]

\* category_item.attrib[name]: a missing attribute raises KeyError.
Attrib(element, name) ==
    IF name \in DOMAIN element.attrib THEN Ok(element.attrib[name])
    ELSE Raise("KeyError", "_parse_posts")

\* The loop over category_items: category_domains, a dict in insertion
\* order from a domain to the list of its {nicename, text} pairs.
RECURSIVE CategoryDomains(_, _)
CategoryDomains(category_items, n) ==
    IF n = 0 THEN Ok(<<>>)
    ELSE LET before == CategoryDomains(category_items, n - 1)
             category_item == category_items[n]
             domain == Attrib(category_item, "domain")
             nicename == Attrib(category_item, "nicename")
         IN IF ~before.ok THEN before
            ELSE IF ~domain.ok THEN domain
            ELSE IF ~nicename.ok THEN nicename
            ELSE LET known == {i \in 1..Len(before.val) :
                                  before.val[i].key = domain.val}
                     started == IF known = {}
                                THEN DictSet(before.val, domain.val, <<>>)
                                ELSE before.val
                     at == CHOOSE i \in 1..Len(started) :
                                  started[i].key = domain.val
                 IN Ok(DictSet(started, domain.val,
                        Append(started[at].val,
                               [nicename |-> nicename.val,
                                text |-> category_item.text])))

\* No prefix: the domain itself as the key.
CategoryPrefixNone == <<>>

\* The prefix of f'category_{k}'.
CategoryPrefix == <<"c", "a", "t", "e", "g", "o", "r", "y", "_">>

\* for k, v in category_domains.items(): post[f'category_{k}'] = v
RECURSIVE WithCategoryDomains(_, _, _)
WithCategoryDomains(dict, category_domains, n) ==
    IF n = 0 THEN dict
    ELSE DictPut(WithCategoryDomains(dict, category_domains, n - 1),
                 CategoryPrefix \o category_domains[n].key,
                 category_domains[n].val)

\* The dict literal of lines 280-300.
ScalarDict(values) ==
    [k \in {ScalarFields[i].key : i \in 1..Len(ScalarFields)} |->
        values[CHOOSE i \in 1..Len(ScalarFields) : ScalarFields[i].key = k]]

\* posts = [] and items = element.findall("item")
PostsEnter ==
    /\ pc = "posts"
    /\ IF ~ChannelElement("_parse_posts").ok
       THEN /\ Propagate(ChannelElement("_parse_posts"))
            /\ UNCHANGED <<posts, items, itemIdx>>
       ELSE /\ posts' = <<>>
            /\ items' = FindAll(ChannelElement("_parse_posts").val, "",
                                "item")
            /\ itemIdx' = 1
            /\ pc' = "post_item"
            /\ UNCHANGED exc
    /\ UNCHANGED <<top, parseVars, catVars, metaVars, post>>

\* One iteration of the for loop of _parse_posts, up to the call of
\* _parse_postmeta: the scalar fields, the category domains, the dict.
PostItem ==
    /\ pc = "post_item"
    /\ itemIdx <= Len(items)
    /\ LET item == items[itemIdx]
           scalars == AllOk(ReadScalars(item))
           category_items == FindAll(item, "", "category")
           category_domains ==
               CategoryDomains(category_items, Len(category_items))
       IN IF ~scalars.ok
          THEN Propagate(scalars) /\ UNCHANGED post
          ELSE IF ~category_domains.ok
          THEN Propagate(category_domains) /\ UNCHANGED post
          ELSE /\ post' = Some(WithCategoryDomains(ScalarDict(scalars.val),
                                   category_domains.val,
                                   Len(category_domains.val)))
               /\ pc' = "postmeta"
               /\ UNCHANGED exc
    /\ UNCHANGED <<top, parseVars, catVars, metaVars, posts, items, itemIdx>>

\* post["comments"] = _parse_comments(item); posts.append(post)
PostComments ==
    /\ pc = "comments"
    /\ LET comments == ParseComments(items[itemIdx])
       IN IF ~comments.ok
          THEN Propagate(comments) /\ UNCHANGED <<post, posts, itemIdx>>
          ELSE /\ post' = Some(DictPut(post[1], KeyComments, comments.val))
               /\ posts' = Append(posts, post'[1])
               /\ itemIdx' = itemIdx + 1
               /\ pc' = "post_item"
               /\ UNCHANGED exc
    /\ UNCHANGED <<top, parseVars, catVars, metaVars, items>>

\* return posts
PostsReturn ==
    /\ pc = "post_item"
    /\ itemIdx > Len(items)
    /\ ReturnTo("_parse_posts", "return")
    /\ UNCHANGED <<top, exc, parseVars, catVars, metaVars, postVars>>

(***************************************************************************)
(* parse.                                                                  *)
(***************************************************************************)
\* doc = ET.parse(path).getroot(); channel = doc.find("./channel")
ParseEnter ==
    /\ pc = "parse"
    /\ channel' = Find(doc[1], "", "channel")
    /\ pc' = "blog"
    /\ UNCHANGED <<top, exc, doc, blog, authors, categories, tags, result,
                   catVars, postVars, metaVars>>

\* blog = _parse_blog(channel)
ParseBlogStage ==
    /\ pc = "blog"
    /\ LET element == ChannelElement("_parse_blog")
           r == IF element.ok THEN ParseBlog(element.val) ELSE element
       IN IF r.ok
          THEN blog' = Some(r.val) /\ pc' = "authors" /\ UNCHANGED exc
          ELSE Propagate(r) /\ UNCHANGED blog
    /\ UNCHANGED <<top, doc, channel, authors, categories, tags, result,
                   catVars, postVars, metaVars>>

\* authors = _parse_authors(channel)
ParseAuthorsStage ==
    /\ pc = "authors"
    /\ LET element == ChannelElement("_parse_authors")
           r == IF element.ok THEN ParseAuthors(element.val) ELSE element
       IN IF r.ok
          THEN authors' = Some(r.val) /\ pc' = "categories"
               /\ UNCHANGED exc
          ELSE Propagate(r) /\ UNCHANGED authors
    /\ UNCHANGED <<top, doc, channel, blog, categories, tags, result,
                   catVars, postVars, metaVars>>

\* tags = _parse_tags(channel)
ParseTagsStage ==
    /\ pc = "tags"
    /\ LET element == ChannelElement("_parse_tags")
           r == IF element.ok THEN ParseTags(element.val) ELSE element
       IN IF r.ok
          THEN tags' = Some(r.val) /\ pc' = "posts" /\ UNCHANGED exc
          ELSE Propagate(r) /\ UNCHANGED tags
    /\ UNCHANGED <<top, doc, channel, blog, authors, categories, result,
                   catVars, postVars, metaVars>>

\* return {"blog": blog, ..., "posts": posts}
ParseReturn ==
    /\ pc = "return"
    /\ result' = Some([blog |-> blog[1], authors |-> authors[1],
                       categories |-> categories[1], tags |-> tags[1],
                       posts |-> posts])
    /\ pc' = "done"
    /\ UNCHANGED <<top, exc, doc, channel, blog, authors, categories, tags,
                   catVars, postVars, metaVars>>

(***************************************************************************)
(* The category stage alone: _parse_categories on every channel of up to   *)
(* MaxCats category elements.                                              *)
(***************************************************************************)
CatNames == {None, Some("a"), Some("b"), Some("c")}
CatParents == {None, Some("a"), Some("b")}

\* A wp:category element; hasParent = FALSE leaves out wp:category_parent.
CategoryElement(i, nicename, parent, hasParent) ==
    Element(WP_NAMESPACE, "category", <<>>, None,
        <<Leaf(WP_NAMESPACE, "term_id", Some(ToString(i))),
          Leaf(WP_NAMESPACE, "category_nicename", nicename),
          Leaf(WP_NAMESPACE, "cat_name", Some("Name"))>>
        \o (IF hasParent
            THEN <<Leaf(WP_NAMESPACE, "category_parent", parent)>>
            ELSE <<>>))

CatShapes ==
    [nicename : CatNames, parent : CatParents, hasParent : {TRUE}]
    \cup [nicename : {Some("a")}, parent : {None}, hasParent : {FALSE}]

CategoryLists ==
    UNION {[1..n -> CatShapes] : n \in 0..MaxCats}

CategoryChannel(shapes) ==
    Element("", "channel", <<>>, None,
        <<Leaf(WP_NAMESPACE, "tag", None)>>
        \o [i \in 1..Len(shapes) |->
               CategoryElement(i, shapes[i].nicename, shapes[i].parent,
                               shapes[i].hasParent)])

InitCat ==
    /\ pc = "categories"
    /\ top = "_parse_categories"
    /\ \E shapes \in CategoryLists :
          /\ channel = Some(CategoryChannel(shapes))
          /\ doc = None /\ blog = None /\ authors = None
          /\ categories = None /\ tags = None /\ posts = <<>>
          /\ result = None /\ exc = None /\ log = <<>> /\ catItems = <<>>
          /\ catIdx = 1 /\ reference = <<>> /\ stack = <<>> /\ ret = None
          /\ items = <<>> /\ itemIdx = 1 /\ post = None /\ fields = <<>>
          /\ fieldIdx = 1 /\ metadata = <<>>

NextCat ==
    \/ CategoriesEnter
    \/ CategoryItem
    \/ BuildRoot
    \/ BuildStep
    \/ BuildReturn

SpecCat == InitCat /\ [][NextCat]_vars

(***************************************************************************)
(* The postmeta stage alone: _parse_postmeta on every item of up to        *)
(* MaxMeta postmeta elements.                                              *)
(***************************************************************************)
\* A wp:postmeta element; a shape without key or value leaves out the child.
PostmetaElement(shape) ==
    Element(WP_NAMESPACE, "postmeta", <<>>, None,
        (IF "key" \in DOMAIN shape
         THEN <<Leaf(WP_NAMESPACE, "meta_key", shape.key)>> ELSE <<>>)
        \o (IF "value" \in DOMAIN shape
            THEN <<Leaf(WP_NAMESPACE, "meta_value", shape.value)>>
            ELSE <<>>))

MetaShapes ==
    [key : {Some("_wp_attachment_metadata")},
     value : {None, Some("i:7;"), Some("a:0:{}"), Some("a:1:{i:0;"),
              Some("a:1:{a:0:{}i:1;}")}]
    \cup [key : {Some("_wp_attached_file"), Some("attached_file")},
          value : {Some("logo-promo.png"), Some("i:7;")}]
    \cup [key : {Some("_wp_attached_file")}, value : {None}]
    \cup [key : {Some("attachment_metadata")},
          value : {Some("i:7;"), Some("a:0:{}")}]
    \cup [key : {Some("_edit_last")}, value : {Some("i:7;")}]
    \cup [key : {Some("_edit_last")}]
    \cup [value : {Some("i:7;")}]

MetaLists == UNION {[1..n -> MetaShapes] : n \in 0..MaxMeta}

PostmetaItem(shapes) ==
    Element("", "item", <<>>, None,
        <<Leaf("", "title", Some("Title"))>>
        \o [i \in 1..Len(shapes) |-> PostmetaElement(shapes[i])])

InitMeta ==
    /\ pc = "postmeta"
    /\ top = "_parse_postmeta"
    /\ \E shapes \in MetaLists :
          /\ items = <<PostmetaItem(shapes)>>
          /\ itemIdx = 1
          /\ doc = None /\ channel = None /\ blog = None /\ authors = None
          /\ categories = None /\ tags = None /\ posts = <<>>
          /\ result = None /\ exc = None /\ log = <<>> /\ catItems = <<>>
          /\ catIdx = 1 /\ reference = <<>> /\ stack = <<>> /\ ret = None
          /\ post = None /\ fields = <<>> /\ fieldIdx = 1
          /\ metadata = <<>>

NextMeta ==
    \/ PostmetaEnter
    \/ PostmetaField
    \/ PostmetaReturn

SpecMeta == InitMeta /\ [][NextMeta]_vars

(***************************************************************************)
(* Documents.                                                              *)
(***************************************************************************)
BlogChildren ==
    <<Leaf("", "title", Some("Blog")),
      Leaf("", "description", None),
      Leaf("", "language", Some("en-US")),
      Leaf(WP_NAMESPACE, "base_site_url", Some("http://example.com")),
      Leaf(WP_NAMESPACE, "base_blog_url", Some("http://example.com/blog"))>>

\* A wp:author element; complete = FALSE leaves out wp:author_first_name.
AuthorElement(complete) ==
    Element(WP_NAMESPACE, "author", <<>>, None,
        <<Leaf(WP_NAMESPACE, "author_login", Some("admin")),
          Leaf(WP_NAMESPACE, "author_email", Some("admin@example.com")),
          Leaf(WP_NAMESPACE, "author_display_name", Some("admin"))>>
        \o (IF complete
            THEN <<Leaf(WP_NAMESPACE, "author_first_name", None)>>
            ELSE <<>>)
        \o <<Leaf(WP_NAMESPACE, "author_last_name", None)>>)

\* A wp:tag element; complete = FALSE leaves out wp:tag_name.
TagElement(complete) ==
    Element(WP_NAMESPACE, "tag", <<>>, None,
        <<Leaf(WP_NAMESPACE, "term_id", Some("36")),
          Leaf(WP_NAMESPACE, "tag_slug", Some("bash"))>>
        \o (IF complete
            THEN <<Leaf(WP_NAMESPACE, "tag_name", Some("Bash"))>>
            ELSE <<>>))

\* A wp:comment element; complete = FALSE leaves out wp:comment_author_email.
CommentElement(complete) ==
    Element(WP_NAMESPACE, "comment", <<>>, None,
        <<Leaf(WP_NAMESPACE, "comment_id", Some("85929")),
          Leaf(WP_NAMESPACE, "comment_author", Some("Author"))>>
        \o (IF complete
            THEN <<Leaf(WP_NAMESPACE, "comment_author_email", None)>>
            ELSE <<>>)
        \o <<Leaf(WP_NAMESPACE, "comment_author_url", None),
             Leaf(WP_NAMESPACE, "comment_author_IP", Some("127.0.0.1")),
             Leaf(WP_NAMESPACE, "comment_date", Some("2014-09-25")),
             Leaf(WP_NAMESPACE, "comment_date_gmt", Some("2014-09-24")),
             Leaf(WP_NAMESPACE, "comment_content", Some("Comment")),
             Leaf(WP_NAMESPACE, "comment_approved", Some("1")),
             Leaf(WP_NAMESPACE, "comment_type", Some("pingback")),
             Leaf(WP_NAMESPACE, "comment_parent", Some("0")),
             Leaf(WP_NAMESPACE, "comment_user_id", Some("0"))>>)

\* A category child of an item; a shape without domain leaves out the
\* attribute.
ItemCategoryElement(shape) ==
    Element("", "category", [k \in DOMAIN shape \ {"text"} |-> shape[k]],
            shape.text, <<>>)

\* The scalar children of item i: its wp:post_id is i; password = FALSE
\* leaves out wp:post_password.
ItemScalars(i, password) ==
    SelectSeq(
        [k \in 1..Len(ScalarFields) |->
            Leaf(ScalarFields[k].ns, ScalarFields[k].name,
                 IF ScalarFields[k].name = "post_id" THEN Some(ToString(i))
                 ELSE IF ScalarFields[k].name = "title" THEN Some("Title")
                 ELSE IF ScalarFields[k].name = "post_type" THEN Some("post")
                 ELSE None)],
        LAMBDA e : password \/ e.tag # <<WP_NAMESPACE, "post_password">>)

ItemElement(i, shape) ==
    Element("", "item", <<>>, None,
        ItemScalars(i, shape.password)
        \o [k \in 1..Len(shape.cats) |-> ItemCategoryElement(shape.cats[k])]
        \o [k \in 1..Len(shape.metas) |-> PostmetaElement(shape.metas[k])]
        \o [k \in 1..Len(shape.comments) |->
               CommentElement(shape.comments[k])])

Channel(blogChildren, authorList, catShapes, tagList, itemShapes) ==
    Element("", "channel", <<>>, None,
        blogChildren
        \o [i \in 1..Len(authorList) |-> AuthorElement(authorList[i])]
        \o [i \in 1..Len(catShapes) |->
               CategoryElement(i, catShapes[i].nicename,
                               catShapes[i].parent, catShapes[i].hasParent)]
        \o [i \in 1..Len(tagList) |-> TagElement(tagList[i])]
        \o [i \in 1..Len(itemShapes) |-> ItemElement(i, itemShapes[i])])

DomCategory == <<"c", "a", "t", "e", "g", "o", "r", "y">>
DomPostTag == <<"p", "o", "s", "t", "_", "t", "a", "g">>

(***************************************************************************)
(* The post stage alone: _parse_posts on every channel of one item with up *)
(* to MaxItemCats category children.                                       *)
(***************************************************************************)
ItemCatShapes ==
    [domain : {DomCategory, DomPostTag, KeyTitle, KeyPostmeta},
     nicename : {"news", "misc"}, text : {Some("Text")}]
    \cup [nicename : {"news"}, text : {None}]

ItemCatLists == UNION {[1..n -> ItemCatShapes] : n \in 0..MaxItemCats}

InitPosts ==
    /\ pc = "posts"
    /\ top = "_parse_posts"
    /\ \E cats \in ItemCatLists :
          channel = Some(Channel(<<>>, <<>>, <<>>, <<>>,
              <<[password |-> TRUE, cats |-> cats,
                 metas |-> <<[key |-> Some("_wp_attached_file"),
                              value |-> Some("logo-promo.png")]>>,
                 comments |-> <<TRUE>>]>>))
    /\ doc = None /\ blog = None /\ authors = None /\ categories = None
    /\ tags = None /\ posts = <<>> /\ result = None /\ exc = None
    /\ log = <<>> /\ catItems = <<>> /\ catIdx = 1 /\ reference = <<>>
    /\ stack = <<>> /\ ret = None /\ items = <<>> /\ itemIdx = 1
    /\ post = None /\ fields = <<>> /\ fieldIdx = 1 /\ metadata = <<>>

NextPosts ==
    \/ PostsEnter
    \/ PostItem
    \/ PostmetaEnter
    \/ PostmetaField
    \/ PostmetaReturn
    \/ PostComments
    \/ PostsReturn

SpecPosts == InitPosts /\ [][NextPosts]_vars

(***************************************************************************)
(* parse on a document: a root without channel, or a channel in which one  *)
(* stage at a time is given its variants, and up to MaxItems items.        *)
(***************************************************************************)
PlainItem ==
    [password |-> TRUE,
     cats |-> <<[domain |-> DomCategory, nicename |-> "news",
                 text |-> Some("News")]>>,
     metas |-> <<>>, comments |-> <<TRUE>>]

ItemShapes ==
    {PlainItem,
     [PlainItem EXCEPT !.password = FALSE],
     [PlainItem EXCEPT !.cats = <<[nicename |-> "news", text |-> None]>>],
     [PlainItem EXCEPT !.comments = <<TRUE, FALSE>>],
     [PlainItem EXCEPT !.metas =
         <<[key |-> Some("_wp_attached_file"),
            value |-> Some("logo-promo.png")],
           [key |-> Some("_wp_attachment_metadata"),
            value |-> Some("a:0:{}")]>>],
     [PlainItem EXCEPT !.metas =
         <<[key |-> Some("_wp_attachment_metadata"),
            value |-> Some("a:1:{i:0;")]>>],
     [PlainItem EXCEPT !.metas =
         <<[key |-> Some("_wp_attachment_metadata"), value |-> None]>>]}

ItemLists == UNION {[1..n -> ItemShapes] : n \in 0..MaxItems}

RootCategory == [nicename |-> Some("a"), parent |-> None, hasParent |-> TRUE]

Channels ==
    {Channel(BlogChildren, <<TRUE>>, <<RootCategory>>, <<TRUE>>, itemShapes) :
        itemShapes \in ItemLists}
    \cup {Channel(SubSeq(BlogChildren, 1, 2) \o SubSeq(BlogChildren, 4, 5),
                  <<TRUE>>, <<RootCategory>>, <<TRUE>>, <<PlainItem>>),
          Channel(BlogChildren, <<TRUE, FALSE>>, <<RootCategory>>, <<TRUE>>,
                  <<PlainItem>>),
          Channel(BlogChildren, <<>>, <<RootCategory>>, <<FALSE>>,
                  <<PlainItem>>)}
    \cup {Channel(BlogChildren, <<TRUE>>, catShapes, <<TRUE>>,
                  <<PlainItem>>) :
            catShapes \in {<<>>,
                <<RootCategory,
                  [nicename |-> Some("b"), parent |-> Some("a"),
                   hasParent |-> TRUE]>>,
                <<[nicename |-> None, parent |-> None, hasParent |-> TRUE]>>,
                <<[nicename |-> Some("a"), parent |-> None,
                   hasParent |-> FALSE]>>}}

\* The root element: an rss element around the channel, or one that holds
\* the content of a channel itself, or nothing.
Documents ==
    {Element("", "rss", <<>>, None, <<c>>) : c \in Channels}
    \cup {Element("", "rss", <<>>, None, <<>>),
          Element("", "rss", <<>>, None,
                  Channel(BlogChildren, <<TRUE>>, <<RootCategory>>, <<TRUE>>,
                          <<PlainItem>>).children)}

Init ==
    /\ pc = "parse"
    /\ top = "parse"
    /\ \E root \in Documents : doc = Some(root)
    /\ channel = None /\ blog = None /\ authors = None /\ categories = None
    /\ tags = None /\ posts = <<>> /\ result = None /\ exc = None
    /\ log = <<>> /\ catItems = <<>> /\ catIdx = 1 /\ reference = <<>>
    /\ stack = <<>> /\ ret = None /\ items = <<>> /\ itemIdx = 1
    /\ post = None /\ fields = <<>> /\ fieldIdx = 1 /\ metadata = <<>>

Next ==
    \/ ParseEnter
    \/ ParseBlogStage
    \/ ParseAuthorsStage
    \/ CategoriesEnter
    \/ CategoryItem
    \/ BuildRoot
    \/ BuildStep
    \/ BuildReturn
    \/ ParseTagsStage
    \/ PostsEnter
    \/ PostItem
    \/ PostmetaEnter
    \/ PostmetaField
    \/ PostmetaReturn
    \/ PostComments
    \/ PostsReturn
    \/ ParseReturn

Spec == Init /\ [][Next]_vars

(***************************************************************************)
(* The category records as the source gives them, for the claims.          *)
(***************************************************************************)
\* The text of a child of a category element that has it.
ChildText(element, name) == Find(element, WP_NAMESPACE, name)[1].text

SourceNicename(i) == ChildText(catItems[i], "category_nicename")
SourceParent(i) == ChildText(catItems[i], "category_parent")

\* All nodes of a forest, nested ones included.
RECURSIVE NodeCount(_)
NodeCount(forest) ==
    IF forest = <<>> THEN 0
    ELSE 1 + NodeCount(forest[1].children) + NodeCount(Tail(forest))

NicenamesDistinct ==
    \A i, j \in 1..Len(catItems) :
        SourceNicename(i) = SourceNicename(j) => i = j

\* The chain of parents that starts at `name` ends at an absent parent within
\* `fuel` links: no link names a missing category, none closes a cycle.
RECURSIVE EndsAtRoot(_, _)
EndsAtRoot(name, fuel) ==
    IF name = None THEN TRUE
    ELSE IF fuel = 0 THEN FALSE
    ELSE \E i \in 1..Len(catItems) :
            /\ SourceNicename(i) = name
            /\ EndsAtRoot(SourceParent(i), fuel - 1)

AllEndAtRoot ==
    \A i \in 1..Len(catItems) :
        /\ SourceNicename(i) # None
        /\ EndsAtRoot(SourceParent(i), Len(catItems))

SourceRoots == {i \in 1..Len(catItems) : SourceParent(i) = None}

\* C2 as claimed: for every input the returned forest has as many top-level
\* entries as there are category records with an absent parent, and as many
\* nodes in all as there are category elements.
C2_ForestCountsAnyInput ==
    (pc = "done" /\ top = "_parse_categories") =>
        /\ Len(categories[1]) = Cardinality(SourceRoots)
        /\ NodeCount(categories[1]) = Len(catItems)

\* C2 as amended: the top-level count holds when the nicenames are pairwise
\* distinct, and the node count holds when moreover every category's chain
\* of parents ends at an absent parent.
C2_ForestCountsWellFormed ==
    (pc = "done" /\ top = "_parse_categories" /\ NicenamesDistinct) =>
        /\ Len(categories[1]) = Cardinality(SourceRoots)
        /\ AllEndAtRoot => NodeCount(categories[1]) = Len(catItems)

\* A well-formed input of three categories came back as one root that has a
\* child.
C2_Witness ==
    /\ pc = "done" /\ top = "_parse_categories"
    /\ NicenamesDistinct /\ AllEndAtRoot
    /\ Len(catItems) = 3
    /\ Len(categories[1]) = 1
    /\ Len(categories[1][1].children) >= 1

(***************************************************************************)
(* Parent cycles.                                                          *)
(***************************************************************************)
\* The reference holds every category: the first loop is over.
ReferenceBuilt ==
    \/ pc \in {"build", "done"}
    \/ pc = "raised" /\ exc[1].at = "_build_category_tree"

\* The entry the parent of entry i names, as a set: empty or one entry.
ParentEntry(i) ==
    {j \in 1..Len(reference) : reference[j].key = reference[i].val.parent}

\* The entries reached from entry i by 1..n parent links.
RECURSIVE Ancestors(_, _)
Ancestors(i, n) ==
    IF n = 0 THEN {}
    ELSE ParentEntry(i) \cup
         UNION {Ancestors(j, n - 1) : j \in ParentEntry(i)}

OnCycle(i) == i \in Ancestors(i, Len(reference))
HasCycle == \E i \in 1..Len(reference) : OnCycle(i)

\* A cycle the root call (slug None) can enter: one through the category
\* whose nicename is absent.
HasRootCycle ==
    \E i \in 1..Len(reference) : reference[i].key = None /\ OnCycle(i)

RecursionOverflow ==
    pc = "raised" /\ exc[1].type = "RecursionError"

\* The nicenames of all nodes of a forest.
RECURSIVE ForestNames(_)
ForestNames(forest) ==
    IF forest = <<>> THEN {}
    ELSE {forest[1].nicename} \cup ForestNames(forest[1].children)
         \cup ForestNames(Tail(forest))

\* C8 as claimed: with a parent cycle among the category records the
\* root call never returns.
C8_CycleNeverReturns ==
    (ReferenceBuilt /\ HasCycle) => pc # "done"

\* C8 as amended: the root call fails to return, recursing until the
\* recursion limit ends it, exactly when a cycle passes through a category
\* whose nicename is absent; with any other cycle it returns, and the
\* forest holds no member of a cycle.
C8_OnlyRootCycleRecurses ==
    ReferenceBuilt =>
        /\ HasRootCycle => pc # "done"
        /\ (HasRootCycle /\ ~ENABLED NextCat) => RecursionOverflow
        /\ RecursionOverflow =>
              HasRootCycle /\ Len(stack) = RecursionLimit
        /\ pc = "done" =>
              \A i \in 1..Len(reference) :
                  OnCycle(i) => reference[i].key \notin
                                    ForestNames(categories[1])

\* A cycle through the category with the absent nicename ended the root
\* call in RecursionError.
C8_Witness ==
    /\ RecursionOverflow
    /\ HasRootCycle
    /\ Len(reference) >= 2

(***************************************************************************)
(* What a call of _build_category_tree returns.                            *)
(***************************************************************************)
\* The categories whose parent is slug, in the order of the reference, each
\* with the same for its own nicename as children; depth bounds the nesting.
RECURSIVE ChildrenOf(_, _)
ChildrenOf(slug, depth) ==
    IF depth = 0 THEN <<[bottom |-> TRUE]>>
    ELSE LET hits == SelectSeq(reference, LAMBDA e : e.val.parent = slug)
         IN [i \in 1..Len(hits) |->
                [term_id |-> hits[i].val.term_id,
                 nicename |-> hits[i].val.nicename,
                 name |-> hits[i].val.name,
                 parent |-> hits[i].val.parent,
                 children |-> ChildrenOf(hits[i].val.nicename, depth - 1)]]

\* Every node under a node named slug has slug as parent, at every level.
RECURSIVE ParentsAre(_, _)
ParentsAre(forest, slug) ==
    \A i \in 1..Len(forest) :
        /\ forest[i].parent = slug
        /\ ParentsAre(forest[i].children, forest[i].nicename)

\* C10: every call that returned gave the categories whose parent is its
\* target, in the order of the reference, each with the result of the call
\* for its own nicename as children; so every child's parent is the nicename
\* of the node that holds it, and every root's parent is absent.
C10_TreeOfReference ==
    ret # None =>
        /\ ret[1].items = ChildrenOf(ret[1].slug, Len(reference) + 1)
        /\ ParentsAre(ret[1].items, ret[1].slug)
        /\ (pc = "done" /\ top = "_parse_categories") =>
              /\ ret[1].slug = None
              /\ categories = Some(ret[1].items)

\* The root call returned a root with two children in document order, or a
\* chain of three.
C10_Witness ==
    /\ pc = "done" /\ top = "_parse_categories"
    /\ Len(categories[1]) = 1
    /\ LET kids == categories[1][1].children
       IN \/ Len(kids) = 2 /\ kids[1].term_id # kids[2].term_id
          \/ Len(kids) = 1 /\ Len(kids[1].children) = 1

(***************************************************************************)
(* The postmeta entries as the source gives them, for the claims.          *)
(***************************************************************************)
KeyAM == Some("_wp_attachment_metadata")
KeyAF == Some("_wp_attached_file")
OutAM == Some("attachment_metadata")
OutAF == Some("attached_file")

InPostmeta == pc \in {"postmeta_field", "done", "raised"}

\* The entries the loop has been through.  An entry that raised is not one:
\* fieldIdx stays on it.
Processed == 1..(fieldIdx - 1)

MetaKey(i) == Find(fields[i], WP_NAMESPACE, "meta_key")[1].text
MetaValue(i) == Find(fields[i], WP_NAMESPACE, "meta_value")[1].text

\* The key an entry maps to, after the two renames.
OutKey(i) ==
    IF MetaKey(i) = KeyAM THEN OutAM
    ELSE IF MetaKey(i) = KeyAF THEN OutAF
    ELSE MetaKey(i)

Decodes(i) == MetaValue(i) # None /\ PhpLoad(MetaValue(i)[1]).ok

\* The value an entry stands for: the decoded value for the attachment
\* metadata, the raw text for every other key.
IsDerivedFrom(value, i) ==
    IF MetaKey(i) = KeyAM
    THEN Decodes(i) /\ value = PhpLoad(MetaValue(i)[1]).val
    ELSE value = MetaValue(i)

Last(S) == CHOOSE i \in S : \A j \in S : j <= i

\* C3 as claimed: once an entry with meta_key _wp_attached_file is in the
\* item, the returned postmeta has attached_file with the raw value of such
\* an entry, whatever the other entries are.
C3_AttachedFileAlwaysRaw ==
    (pc = "done" /\ top = "_parse_postmeta") =>
        LET entries == {i \in Processed : MetaKey(i) = KeyAF}
        IN entries # {} =>
              /\ OutAF \in DOMAIN metadata
              /\ \E i \in entries : metadata[OutAF] = MetaValue(i)

\* C3 as amended: attached_file holds the raw value of the last entry whose
\* meta_key is _wp_attached_file or attached_file itself.  It holds after
\* every entry of the loop, so also of what _parse_postmeta returns.
C3_AttachedFileLastRaw ==
    InPostmeta =>
        LET entries == {i \in Processed : MetaKey(i) \in {KeyAF, OutAF}}
        IN entries # {} =>
              /\ OutAF \in DOMAIN metadata
              /\ metadata[OutAF] = MetaValue(Last(entries))

\* An attached_file entry came after the _wp_attached_file entry with
\* another value, and _parse_postmeta returned the later value.
C3_Witness ==
    /\ pc = "done" /\ top = "_parse_postmeta"
    /\ Len(fields) = 3
    /\ MetaKey(1) = KeyAM /\ MetaKey(2) = KeyAF /\ MetaKey(3) = OutAF
    /\ MetaValue(2) # MetaValue(3)
    /\ metadata[OutAF] = MetaValue(3)

\* C9 as claimed: every key of the result holds the value derived from the
\* last entry that maps to it after the renames.
C9_LastEntryWins ==
    (pc = "done" /\ top = "_parse_postmeta") =>
        \A k \in DOMAIN metadata :
            LET entries == {i \in Processed : OutKey(i) = k}
            IN /\ entries # {}
               /\ IsDerivedFrom(metadata[k], Last(entries))

\* An entry stores a value unless it is attachment metadata the decoder
\* rejects.
Stores(i) == MetaKey(i) = KeyAM => Decodes(i)

\* C9 as amended: every key of the result holds the value derived from the
\* last entry that maps to it and stored a value; an entry of attachment
\* metadata that does not decode stores nothing and leaves an earlier value
\* in place.  Every key other than the two renamed ones holds a raw text.
C9_LastWriteWins ==
    InPostmeta =>
        /\ \A k \in DOMAIN metadata :
              LET entries == {i \in Processed : OutKey(i) = k /\ Stores(i)}
              IN /\ entries # {}
                 /\ IsDerivedFrom(metadata[k], Last(entries))
        /\ \A i \in Processed : Stores(i) => OutKey(i) \in DOMAIN metadata

\* Two entries that map to one key stored different values, and the result
\* holds the second.
C9_Witness ==
    /\ pc = "done" /\ top = "_parse_postmeta"
    /\ \E i, j \in Processed :
          /\ i < j /\ OutKey(i) = OutKey(j)
          /\ MetaKey(i) # MetaKey(j)
          /\ Stores(i) /\ Stores(j)
          /\ ~IsDerivedFrom(metadata[OutKey(j)], i)
          /\ IsDerivedFrom(metadata[OutKey(j)], j)

\* Every postmeta element of the item has its meta_key and its meta_value.
FieldsComplete ==
    \A i \in 1..Len(fields) :
        /\ Find(fields[i], WP_NAMESPACE, "meta_key") # None
        /\ Find(fields[i], WP_NAMESPACE, "meta_value") # None

\* C4 as claimed, for an item whose only entry for the key is one
\* _wp_attachment_metadata entry: a value that decodes is stored decoded; a
\* value that does not (the empty one included) leaves the key out, logs a
\* warning, and _parse_postmeta still returns.
C4_MalformedIsSkipped ==
    (pc \in {"done", "raised"} /\ top = "_parse_postmeta"
        /\ FieldsComplete) =>
        \A i \in 1..Len(fields) :
            (/\ MetaKey(i) = KeyAM
             /\ \A j \in 1..Len(fields) : OutKey(j) = OutAM => j = i) =>
                IF Decodes(i)
                THEN (pc = "done" =>
                        /\ OutAM \in DOMAIN metadata
                        /\ metadata[OutAM] = PhpLoad(MetaValue(i)[1]).val)
                ELSE /\ pc = "done"
                     /\ OutAM \notin DOMAIN metadata
                     /\ log # <<>>

\* What does hold of a value that does not decode: a ValueError of the
\* decoder is logged and skipped, anything else ends _parse_postmeta with
\* the exception.
DecodeFailureOutcome ==
    (pc \in {"done", "raised"} /\ top = "_parse_postmeta"
        /\ FieldsComplete) =>
        \A i \in 1..Len(fields) :
            (MetaKey(i) = KeyAM /\ ~Decodes(i) /\ i <= fieldIdx) =>
                IF MetaValue(i) # None
                   /\ PhpLoad(MetaValue(i)[1]).exc = "ValueError"
                THEN \E w \in 1..Len(log) : log[w].field = i
                ELSE pc = "raised" /\ fieldIdx = i

(***************************************************************************)
(* The post records against the items they are built from.                 *)
(***************************************************************************)
ScalarKeys == {ScalarFields[i].key : i \in 1..Len(ScalarFields)}

\* The key the claim names for domain d: the text category_<d>.
CategoryKey(d) == <<"c", "a", "t", "e", "g", "o", "r", "y", "_">> \o d

ItemCategories(item) == FindAll(item, "", "category")

ItemDomains(item) ==
    {ItemCategories(item)[k].attrib.domain :
        k \in 1..Len(ItemCategories(item))}

\* The {nicename, text} pairs of the category children of domain d, in
\* document order.
PairsOfDomain(item, d) ==
    LET of == SelectSeq(ItemCategories(item),
                        LAMBDA c : c.attrib.domain = d)
    IN [k \in 1..Len(of) |->
           [nicename |-> of[k].attrib.nicename, text |-> of[k].text]]

RECURSIVE TotalLength(_, _, _)
TotalLength(record, item, domains) ==
    IF domains = {} THEN 0
    ELSE LET d == CHOOSE d \in domains : TRUE
         IN Len(record[CategoryKey(d)])
                + TotalLength(record, item, domains \ {d})

\* The text of the child a scalar key is read from.
ScalarText(item, key) ==
    LET f == ScalarFields[CHOOSE i \in 1..Len(ScalarFields) :
                              ScalarFields[i].key = key]
    IN Find(item, f.ns, f.name)[1].text

CategoriesGrouped(record, item) ==
    /\ \A d \in ItemDomains(item) :
          /\ CategoryKey(d) \in DOMAIN record
          /\ record[CategoryKey(d)] = PairsOfDomain(item, d)
    /\ TotalLength(record, item, ItemDomains(item))
          = Len(ItemCategories(item))
    /\ \A d \in ItemDomains(item) :
          CategoryKey(d) \notin ScalarKeys \cup {KeyPostmeta, KeyComments}
    /\ \A key \in ScalarKeys :
          key \in DOMAIN record /\ record[key] = ScalarText(item, key)
    /\ DOMAIN record \subseteq
          ScalarKeys \cup {KeyPostmeta, KeyComments}
              \cup {CategoryKey(d) : d \in ItemDomains(item)}

NoChannel == Find(doc[1], "", "channel") = None

\* C6: when the root has no channel child, no stage of parse produces
\* output and no result is returned: parse is at its first stage or has
\* left with the exception that stage raised.
C6_NoChannelNoResult ==
    NoChannel =>
        /\ result = None
        /\ blog = None /\ authors = None /\ categories = None /\ tags = None
        /\ posts = <<>>
        /\ pc \in {"parse", "blog", "raised"}
        /\ pc = "raised" =>
              exc = Some([type |-> "AttributeError", at |-> "_parse_blog"])

\* C6 happens: parse has failed on a root that holds the content of a
\* channel itself.
C6_Witness ==
    /\ NoChannel
    /\ pc = "raised"
    /\ Find(doc[1], "", "title") # None
    /\ Find(doc[1], "", "item") # None

ChannelItems == FindAll(Find(doc[1], "", "channel")[1], "", "item")

\* C1 as claimed: for every channel, parse gets through the post stage and
\* returns one post per item, the i-th from the i-th item.
\* The post stage is entered once the tags are there.
C1_OnePostPerItem ==
    (~NoChannel /\ tags # None) =>
        /\ pc # "raised"
        /\ pc = "done" =>
              /\ Len(result[1].posts) = Len(ChannelItems)
              /\ \A i \in 1..Len(ChannelItems) :
                    result[1].posts[i][KeyPostId]
                        = Find(ChannelItems[i], WP_NAMESPACE, "post_id")[1].text

\* The part of C1 that holds: when parse returns, it returns one post per
\* item, in document order.
PostsInDocumentOrder ==
    pc = "done" =>
        /\ Len(result[1].posts) = Len(ChannelItems)
        /\ \A i \in 1..Len(ChannelItems) :
              /\ result[1].posts[i][KeyPostId]
                    = Find(ChannelItems[i], WP_NAMESPACE, "post_id")[1].text
              /\ CategoriesGrouped(result[1].posts[i], ChannelItems[i])

\* C5 as claimed: _get_wp_element never raises.
C5_AccessorNeverRaises ==
    ~(pc = "raised" /\ exc[1].at = "_get_wp_element")

\* Only a run that ends in RecursionError stores children in a category a
\* second time, so in a run that returns the list a caller holds and the
\* reference never disagree about a category.
StoredOnce ==
    [][\A i \in 1..Len(reference) :
          ("children" \in DOMAIN reference[i].val
              /\ reference'[i].val # reference[i].val) => HasRootCycle]_vars

=============================================================================
